---- MODULE Spec2Model ----
(***************************************************************************)
(* A model of bravado_core/resource.py: the path-to-resource-name          *)
(* resolver convert_path_to_resource, the grouping pass build_resources    *)
(* and the Resource container with its attribute-style operation lookup.   *)
(*                                                                         *)
(* Strings that the code takes apart (path names, and the tags that may be *)
(* derived from them) are sequences of one-character strings, so that      *)
(* lstrip and split are computed character by character.  Strings the code *)
(* only compares (operation ids, http methods, attribute names) are TLA+   *)
(* strings.  A Python dict is a function whose DOMAIN is its key set.      *)
(***************************************************************************)
EXTENDS Integers, Sequences, FiniteSets, TLC

VARIABLES
    cp_path,      \* argument of a convert_path_to_resource call
    cp_result,    \* its outcome, "pending" before the call
    iterated,     \* path/method entries the grouping pass has iterated over
    tag_to_ops,   \* build_resources: tag -> (operation_id -> Operation)
    constructed,  \* Operations built by Operation.from_spec, in order
    converted,    \* indices of the entries whose path was handed to the resolver
    result,       \* outcome of build_resources, "pending" while it loops
    resource,     \* a Resource object
    item,         \* the attribute name last looked up on it
    attr_result   \* outcome of that lookup

vars == <<cp_path, cp_result, iterated, tag_to_ops, constructed, converted,
          result, resource, item, attr_result>>

path_vars  == <<cp_path, cp_result>>
build_vars == <<iterated, tag_to_ops, constructed, converted, result>>
attr_vars  == <<resource, item, attr_result>>

-----------------------------------------------------------------------------
(* Bounds *)

MaxLen == 4

MaxEntries == 2

-----------------------------------------------------------------------------
(* Strings and dicts *)

Chars == {"/", "p", "e", "t"}

RECURSIVE StrsOfLen(_)
StrsOfLen(n) ==
    IF n = 0 THEN {<<>>}
    ELSE {<<c>> \o s : c \in Chars, s \in StrsOfLen(n - 1)}

Strs == UNION {StrsOfLen(n) : n \in 0..MaxLen}

\* A variant that drops one leading '/' only.
LStripOne(s) ==
    IF s # <<>> /\ Head(s) = "/" THEN Tail(s) ELSE s

\* str.lstrip('/'): drops every leading '/'.
RECURSIVE LStrip(_)
LStrip(s) ==
    IF s # <<>> /\ Head(s) = "/" THEN LStrip(Tail(s)) ELSE s

\* str.split('/'): the tokens between the separators; never an empty list.
RECURSIVE Split(_)
Split(s) ==
    IF \E i \in 1..Len(s) : s[i] = "/"
    THEN LET i == CHOOSE i \in 1..Len(s) :
                      s[i] = "/" /\ \A j \in 1..(i - 1) : s[j] # "/"
         IN  <<SubSeq(s, 1, i - 1)>> \o Split(SubSeq(s, i + 1, Len(s)))
    ELSE <<s>>

\* d[k] = v on a dict.
Put(d, k, v) == (k :> v) @@ d

\* dict.get(k), None when the key is absent.
None == [kind |-> "None"]

Get(d, k) == IF k \in DOMAIN d THEN d[k] ELSE None

-----------------------------------------------------------------------------
(* convert_path_to_resource *)

SwaggerMappingError(path_name) ==
    [kind |-> "raise", exc |-> "SwaggerMappingError", path_name |-> path_name]

\* A variant that takes the last token instead of the first.
convert_path_last_token(path_name) ==
    LET tokens == Split(LStrip(path_name))
        resource_name == tokens[Len(tokens)]
    IN  IF resource_name = <<>>
        THEN SwaggerMappingError(path_name)
        ELSE [kind |-> "return", value |-> resource_name]

convert_path_to_resource(path_name) ==
    LET tokens == Split(LStrip(path_name))
        resource_name == tokens[1]
    IN  IF resource_name = <<>>
        THEN SwaggerMappingError(path_name)
        ELSE [kind |-> "return", value |-> resource_name]

-----------------------------------------------------------------------------
(* Resource *)

\* Resource.__init__: both arguments are stored as given.
Resource(name, ops) == [name |-> name, operations |-> ops]

\* Resource.__getattr__(item), the hook Python calls when the ordinary
\* attribute lookup finds nothing.  An Operation is an ordinary object and
\* so is true; None is not.
Resource_getattr(self, it) ==
    LET op == Get(self.operations, it)
    IN  IF op = None
        THEN [kind |-> "raise", exc |-> "AttributeError",
              resource_name |-> self.name, item_name |-> it]
        ELSE [kind |-> "return", type |-> "Operation", op |-> op]

\* The expression  r.<it>  on a Resource r.  The ordinary lookup finds the
\* attributes __init__ stored in the instance (name, operations) before
\* __getattr__ is consulted.
GetAttr(self, it) ==
    IF it = "name"
    THEN [kind |-> "return", type |-> "str", str |-> self.name]
    ELSE IF it = "operations"
    THEN [kind |-> "return", type |-> "dict", dict |-> self.operations]
    ELSE Resource_getattr(self, it)

-----------------------------------------------------------------------------
(* build_resources *)

Pet == <<"p", "e", "t">>

Store == <<"s", "t", "o", "r", "e">>

RootPath == <<"/">>

PetFindByStatus ==
    <<"/", "p", "e", "t", "/", "f", "i", "n", "d", "B", "y", "S", "t", "a", "t", "u", "s">>

StoreInventory ==
    <<"/", "s", "t", "o", "r", "e", "/", "i", "n", "v", "e", "n", "t", "o", "r", "y">>

PathNames == {RootPath, PetFindByStatus, StoreInventory}

TagLists == {<<>>, <<Pet>>, <<Store>>, <<Pet, Store>>, <<Pet, Pet>>}

OperationIds == {"x", "dup"}

\* An operation fragment: its declared tags, the operation_id the Operation
\* built from it will expose, and whether Operation construction fails on it.
OpSpecs == [tags : TagLists, operationId : OperationIds, malformed : BOOLEAN]

\* The value under a path's 'parameters' key is a list of parameters, not an
\* operation fragment: nothing an Operation could be built from.
SharedParameters == [tags |-> <<>>, operationId |-> "", malformed |-> TRUE]

\* The (path_name, http_method, op_spec) triples the two nested loops visit.
Entries ==
    {[path_name |-> p, http_method |-> m, op_spec |-> s] :
        p \in PathNames, m \in {"get", "post"}, s \in OpSpecs}
    \cup
    {[path_name |-> p, http_method |-> "parameters", op_spec |-> SharedParameters] :
        p \in PathNames}

\* The loops iterate over dicts: a path occurs once, its entries come one
\* after the other, and a key occurs once under its path.
ValidNext(done, e) ==
    LET n == Len(done)
    IN  /\ \A i \in 1..n :
              ~(done[i].path_name = e.path_name /\ done[i].http_method = e.http_method)
        /\ \A i \in 1..n :
              done[i].path_name = e.path_name => done[n].path_name = e.path_name

\* Operation.from_spec: a fresh Operation (id is its identity) exposing
\* operation_id, or the error its construction raises.
Operation_from_spec(id, path_name, http_method, op_spec) ==
    IF op_spec.malformed
    THEN [kind |-> "raise", exc |-> "OperationError", path_name |-> path_name]
    ELSE [kind |-> "return",
          value |-> [id |-> id, operation_id |-> op_spec.operationId,
                     path_name |-> path_name, http_method |-> http_method]]

\* A variant that skips no key.
NothingSkipped(http_method) == FALSE

\* Line 59: the key that is skipped.
IsSkipped(http_method) == http_method = "parameters"

\* A variant that derives the name from the path before it looks at the tags.
ResolveTagsEager(op_spec, path_name) ==
    LET tags == op_spec.tags
        derived == convert_path_to_resource(path_name)
    IN  IF derived.kind = "raise"
        THEN [kind |-> "raise", error |-> derived, calls |-> TRUE]
        ELSE [kind |-> "return",
              value |-> IF tags = <<>> THEN <<derived.value>> ELSE tags,
              calls |-> TRUE]

\* A variant that leaves an entry ungrouped when no name can be derived.
ResolveTagsLenient(op_spec, path_name) ==
    LET tags == op_spec.tags
    IN  IF tags = <<>>
        THEN LET derived == convert_path_to_resource(path_name)
             IN  IF derived.kind = "raise"
                 THEN [kind |-> "return", value |-> <<>>, calls |-> TRUE]
                 ELSE [kind |-> "return", value |-> <<derived.value>>, calls |-> TRUE]
        ELSE [kind |-> "return", value |-> tags, calls |-> FALSE]

\* Lines 64-67: the declared tags, or the one derived from the path when
\* none is declared.  calls: whether convert_path_to_resource was called.
ResolveTags(op_spec, path_name) ==
    LET tags == op_spec.tags
    IN  IF tags = <<>>
        THEN LET derived == convert_path_to_resource(path_name)
             IN  IF derived.kind = "raise"
                 THEN [kind |-> "raise", error |-> derived, calls |-> TRUE]
                 ELSE [kind |-> "return", value |-> <<derived.value>>, calls |-> TRUE]
        ELSE [kind |-> "return", value |-> tags, calls |-> FALSE]

\* A variant that stores a copy of the Operation, a different object.
InsertOneCopy(t2o, tag, op) ==
    Put(t2o, tag, Put(IF tag \in DOMAIN t2o THEN t2o[tag] ELSE <<>>,
                      op.operation_id, [op EXCEPT !.id = 0 - op.id]))

\* A variant that keeps the Operation already stored under the operation_id.
InsertOneKeepFirst(t2o, tag, op) ==
    IF tag \in DOMAIN t2o /\ op.operation_id \in DOMAIN t2o[tag]
    THEN t2o
    ELSE Put(t2o, tag, Put(IF tag \in DOMAIN t2o THEN t2o[tag] ELSE <<>>,
                           op.operation_id, op))

\* A variant that keys the bucket by the http method.
InsertOneByMethod(t2o, tag, op) ==
    Put(t2o, tag, Put(IF tag \in DOMAIN t2o THEN t2o[tag] ELSE <<>>,
                      op.http_method, op))

\* Line 70: tag_to_ops[tag][op.operation_id] = op on a defaultdict(dict).
InsertOne(t2o, tag, op) ==
    Put(t2o, tag, Put(IF tag \in DOMAIN t2o THEN t2o[tag] ELSE <<>>,
                      op.operation_id, op))

\* A variant that stops after the first tag.
InsertFirstTagOnly(t2o, tags, op) ==
    IF tags = <<>> THEN t2o
    ELSE Put(t2o, Head(tags),
             Put(IF Head(tags) \in DOMAIN t2o THEN t2o[Head(tags)] ELSE <<>>,
                 op.operation_id, op))

\* Lines 69-70: the loop over the tags.
RECURSIVE InsertOps(_, _, _)
InsertOps(t2o, tags, op) ==
    IF tags = <<>> THEN t2o
    ELSE InsertOps(InsertOne(t2o, Head(tags), op), Tail(tags), op)

\* Lines 72-74: one Resource per tag bucket.
MakeResources(t2o) == [tag \in DOMAIN t2o |-> Resource(tag, t2o[tag])]

-----------------------------------------------------------------------------
(* State machines *)

Pending == [kind |-> "pending"]

Idle == [kind |-> "idle"]

InitPathIdle == cp_path = <<>> /\ cp_result = Idle

InitBuildIdle ==
    /\ iterated = <<>>
    /\ tag_to_ops = <<>>
    /\ constructed = <<>>
    /\ converted = {}
    /\ result = Idle

InitAttrIdle == resource = None /\ item = "" /\ attr_result = Idle

\* A call of convert_path_to_resource on any path.
InitPath ==
    /\ cp_path \in Strs
    /\ cp_result = Pending
    /\ InitBuildIdle
    /\ InitAttrIdle

Convert ==
    /\ cp_result = Pending
    /\ cp_result' = convert_path_to_resource(cp_path)
    /\ UNCHANGED <<cp_path, build_vars, attr_vars>>

NextPath == Convert

SpecPath == InitPath /\ [][NextPath]_vars

\* A call of build_resources: line 48.
Init ==
    /\ iterated = <<>>
    /\ tag_to_ops = <<>>
    /\ constructed = <<>>
    /\ converted = {}
    /\ result = Pending
    /\ InitPathIdle
    /\ InitAttrIdle

\* Lines 55-70, one pass of the inner loop over the entry e.  constructed
\* records the outcome of each Operation.from_spec call.
Iterate(e) ==
    LET idx == Len(iterated) + 1
        made == Operation_from_spec(idx, e.path_name, e.http_method, e.op_spec)
        tags == ResolveTags(e.op_spec, e.path_name)
    IN  /\ result = Pending
        /\ Len(iterated) < MaxEntries
        /\ ValidNext(iterated, e)
        /\ iterated' = Append(iterated, e)
        /\ IF IsSkipped(e.http_method)
           THEN UNCHANGED <<tag_to_ops, constructed, converted, result>>
           ELSE /\ constructed' = Append(constructed, made)
                /\ IF made.kind = "raise"
                   THEN /\ result' = made
                        /\ UNCHANGED <<tag_to_ops, converted>>
                   ELSE /\ converted' = IF tags.calls THEN converted \cup {idx}
                                        ELSE converted
                        /\ IF tags.kind = "raise"
                           THEN /\ result' = tags.error
                                /\ UNCHANGED tag_to_ops
                           ELSE /\ tag_to_ops' = InsertOps(tag_to_ops, tags.value, made.value)
                                /\ UNCHANGED result
        /\ UNCHANGED <<path_vars, attr_vars>>

\* Lines 72-75, once the paths are exhausted.
Return ==
    /\ result = Pending
    /\ result' = [kind |-> "return", resources |-> MakeResources(tag_to_ops)]
    /\ UNCHANGED <<iterated, tag_to_ops, constructed, converted, path_vars, attr_vars>>

Next ==
    \/ \E e \in Entries : Iterate(e)
    \/ Return

Spec == Init /\ [][Next]_vars

\* Attribute access on a Resource built directly from a name and a mapping.
AttrNames == {"name", "operations", "x", "dup"}

Items == AttrNames \cup {"anything"}

Operations ==
    {[id |-> i, operation_id |-> k, path_name |-> PetFindByStatus, http_method |-> "get"] :
        i \in 1..2, k \in {"x"}}

Mappings ==
    UNION {[keys -> Operations] : keys \in SUBSET AttrNames}

InitAttr ==
    /\ resource \in {Resource(n, ops) : n \in {Pet, Store}, ops \in Mappings}
    /\ item = ""
    /\ attr_result = Pending
    /\ InitPathIdle
    /\ InitBuildIdle

Access(it) ==
    /\ attr_result = Pending
    /\ item' = it
    /\ attr_result' = GetAttr(resource, it)
    /\ UNCHANGED <<resource, path_vars, build_vars>>

NextAttr == \E it \in Items : Access(it)

SpecAttr == InitAttr /\ [][NextAttr]_vars

-----------------------------------------------------------------------------
(* Vocabulary of the properties *)

Min(S) == CHOOSE x \in S : \A y \in S : x <= y

Max(S) == CHOOSE x \in S : \A y \in S : y <= x

Returned(v) == [kind |-> "return", value |-> v]

\* The first of the '/'-separated pieces of the whole path that is not empty.
HasSegment(p) == \E i \in 1..Len(p) : p[i] # "/"

FirstSegment(p) ==
    LET pieces == Split(p)
    IN  pieces[Min({i \in 1..Len(pieces) : pieces[i] # <<>>})]

\* "strip a single leading /, split on /, take the first token".
StripOneReference(p) ==
    LET s == IF p # <<>> /\ Head(p) = "/" THEN Tail(p) ELSE p
        token == Split(s)[1]
    IN  IF token = <<>> THEN SwaggerMappingError(p) ELSE Returned(token)

\* "strip every leading /, split on /, take the first token", by positions.
StripAllReference(p) ==
    LET named == {i \in 1..Len(p) : p[i] # "/"}
    IN  IF named = {} THEN SwaggerMappingError(p)
        ELSE LET first == Min(named)
                 stops == {j \in first..Len(p) : p[j] = "/"}
                 last  == IF stops = {} THEN Len(p) ELSE Min(stops) - 1
             IN  Returned(SubSeq(p, first, last))

\* The path starts with two or more '/' and names something after them.
SeveralLeadingSlashes(p) ==
    /\ Len(p) >= 2
    /\ p[1] = "/"
    /\ p[2] = "/"
    /\ \E i \in 1..Len(p) : p[i] # "/"

Converted == cp_result.kind \in {"return", "raise"}

\* Entries of the pass, by their position in the iteration order.
Positions == 1..Len(iterated)

IsOperationEntry(i) == iterated[i].http_method # "parameters"

\* The entry at which the pass ended with an error, if it did.
Failed(i) == result.kind = "raise" /\ i = Len(iterated)

Grouped == {i \in Positions : IsOperationEntry(i) /\ ~Failed(i)}

Declared(e) == {e.op_spec.tags[n] : n \in 1..Len(e.op_spec.tags)}

\* The tags an entry is to be grouped under.
TagsOf(e) ==
    IF e.op_spec.tags # <<>> THEN Declared(e)
    ELSE IF HasSegment(e.path_name) THEN {FirstSegment(e.path_name)}
    ELSE {}

\* The Operations Operation.from_spec has returned.
Built == {constructed[n].value :
             n \in {m \in 1..Len(constructed) : constructed[m].kind = "return"}}

\* The tags whose bucket maps some operation_id to the Operation of entry i.
Holding(buckets, i) ==
    {t \in DOMAIN buckets : \E k \in DOMAIN buckets[t] : buckets[t][k].id = i}

Buckets(resources) == [t \in DOMAIN resources |-> resources[t].operations]

\* A later entry was grouped under tag t with the operation_id of entry i.
Overwritten(i, t) ==
    \E j \in Grouped :
        /\ j > i
        /\ t \in TagsOf(iterated[j])
        /\ iterated[j].op_spec.operationId = iterated[i].op_spec.operationId

\* The entries grouped under tag t with operation_id k.
Writers(t, k) ==
    {i \in Grouped : t \in TagsOf(iterated[i]) /\ iterated[i].op_spec.operationId = k}

-----------------------------------------------------------------------------
(* Properties *)

\* C1 as stated: once build_resources has returned, every Operation built
\* during the pass is a value of the operations mapping of at least one
\* Resource of the returned index.
C1_EveryOperationInSomeResource ==
    result.kind = "return" =>
        \A op \in Built :
            \E t \in DOMAIN result.resources :
                \E k \in DOMAIN result.resources[t].operations :
                    result.resources[t].operations[k] = op

\* C1 amended: once build_resources has returned, an Operation built during
\* the pass is in some Resource of the returned index exactly when, under at
\* least one of its tags, no later entry with the same operation_id was
\* grouped.
C1_InSomeResourceUnlessOverwritten ==
    result.kind = "return" =>
        \A op \in Built :
            (\E t \in DOMAIN result.resources :
                 \E k \in DOMAIN result.resources[t].operations :
                     result.resources[t].operations[k] = op)
            <=> (\E t \in TagsOf(iterated[op.id]) : ~Overwritten(op.id, t))

C1_Witness ==
    /\ result.kind = "return"
    /\ Len(iterated) = 2
    /\ Cardinality(Built) = 2
    /\ Overwritten(1, Pet)
    /\ Holding(Buckets(result.resources), 1) = {Store}
    /\ Holding(Buckets(result.resources), 2) = {Pet}

\* C2 as stated: an entry whose tag list has N >= 1 elements has its one
\* Operation referenced from exactly N distinct Resources of the returned
\* index.
C2_ExactlyNResources ==
    result.kind = "return" =>
        \A i \in Grouped :
            Len(iterated[i].op_spec.tags) >= 1 =>
                Cardinality(Holding(Buckets(result.resources), i))
                    = Len(iterated[i].op_spec.tags)

\* C2 amended: the Operation of an entry with declared tags is referenced
\* from exactly the Resources of its distinct declared tags under which no
\* later entry with the same operation_id was grouped; attribute access by
\* its operation_id on each of them gives the very Operation from_spec
\* returned; these are N Resources when the N tags are distinct and none is
\* overwritten.
C2_SharedAmongDeclaredTags ==
    result.kind = "return" =>
        \A i \in Grouped :
            LET e == iterated[i]
                kept == {t \in Declared(e) : ~Overwritten(i, t)}
                held == Holding(Buckets(result.resources), i)
            IN  e.op_spec.tags # <<>> =>
                    /\ held = kept
                    /\ \A t \in held :
                           /\ GetAttr(result.resources[t], e.op_spec.operationId).kind
                                  = "return"
                           /\ GetAttr(result.resources[t], e.op_spec.operationId).op
                                  \in Built
                           /\ GetAttr(result.resources[t], e.op_spec.operationId).op.id = i
                    /\ (Cardinality(kept) = Len(e.op_spec.tags) =>
                            Cardinality(held) = Len(e.op_spec.tags))

C2_Witness ==
    /\ result.kind = "return"
    /\ \E i \in Grouped :
           /\ iterated[i].op_spec.tags = <<Pet, Store>>
           /\ iterated[i].op_spec.operationId = "x"
           /\ GetAttr(result.resources[Pet], "x") = GetAttr(result.resources[Store], "x")
           /\ GetAttr(result.resources[Pet], "x").op.id = i

\* C3 as stated: convert_path_to_resource agrees on every path with "strip
\* a single leading /, split on /, take the first token, fail when it is
\* empty".
C3_AgreesWithStripOne ==
    Converted => cp_result = StripOneReference(cp_path)

\* C3 amended: convert_path_to_resource agrees on every path with "strip
\* every leading /, split on /, take the first token, fail when it is
\* empty"; it differs from the single-strip reference exactly on the paths
\* that start with more than one / and have a non-empty segment.
C3_AgreesWithStripAll ==
    Converted =>
        /\ cp_result = StripAllReference(cp_path)
        /\ (cp_result = StripOneReference(cp_path)) <=> ~SeveralLeadingSlashes(cp_path)

C3_Witness ==
    /\ cp_path = <<"/", "/", "p", "e">>
    /\ cp_result = Returned(<<"p", "e">>)

\* C4: a path with a non-empty segment gives its first non-empty segment;
\* '/' and the empty string raise the mapping error, naming the path.
C4_FirstNonEmptySegment ==
    Converted =>
        /\ HasSegment(cp_path) => cp_result = Returned(FirstSegment(cp_path))
        /\ cp_path \in {<<"/">>, <<>>} => cp_result = SwaggerMappingError(cp_path)

C4_Witness ==
    /\ cp_path = <<"/", "p", "e", "t">>
    /\ cp_result = Returned(Pet)

\* C5: an entry keyed 'parameters' builds no Operation and leaves every tag
\* bucket as it is; every other entry makes exactly one Operation.from_spec
\* call, so the calls made number the entries not keyed 'parameters'.
C5_ParametersSkipped ==
    [][iterated' # iterated =>
          LET e == iterated'[Len(iterated')]
          IN  /\ e.http_method = "parameters" =>
                     /\ constructed' = constructed
                     /\ tag_to_ops' = tag_to_ops
                     /\ result' = result
              /\ e.http_method # "parameters" =>
                     Len(constructed') = Len(constructed) + 1
              /\ Len(constructed')
                     = Cardinality({i \in 1..Len(iterated') :
                                       iterated'[i].http_method # "parameters"})]_vars

C5_Witness ==
    /\ Len(iterated) = 2
    /\ iterated[1].http_method = "parameters"
    /\ iterated[2].http_method = "get"
    /\ Len(constructed) = 1
    /\ DOMAIN tag_to_ops # {}

\* C6: under each tag, each operation_id maps to the Operation of the last
\* entry grouped under that tag with that operation_id, in the buckets
\* during the pass and in the returned index; a collision raises nothing:
\* the pass ends with an error only at an entry from_spec fails on or an
\* untagged entry whose path has no segment.
C6_LastWriteWins ==
    /\ result.kind \in {"pending", "return", "raise"} =>
           \A t \in DOMAIN tag_to_ops :
               \A k \in DOMAIN tag_to_ops[t] :
                   /\ Writers(t, k) # {}
                   /\ tag_to_ops[t][k].id = Max(Writers(t, k))
    /\ result.kind = "return" =>
           \A t \in DOMAIN result.resources :
               \A k \in DOMAIN result.resources[t].operations :
                   result.resources[t].operations[k].id = Max(Writers(t, k))
    /\ result.kind = "raise" =>
           LET e == iterated[Len(iterated)]
           IN  \/ e.op_spec.malformed
               \/ e.op_spec.tags = <<>> /\ ~HasSegment(e.path_name)

C6_Witness ==
    /\ result.kind = "return"
    /\ Len(iterated) = 2
    /\ iterated[1].op_spec.tags = <<Pet, Store>>
    /\ iterated[2].op_spec.tags = <<Pet>>
    /\ iterated[1].op_spec.operationId = "dup"
    /\ iterated[2].op_spec.operationId = "dup"
    /\ result.resources[Pet].operations["dup"].id = 2
    /\ result.resources[Store].operations["dup"].id = 1

\* C7: an entry without tags is grouped under the first segment of its path
\* and under no other tag; an entry with tags is grouped under its declared
\* tags only, the resolver is not called for it, and it raises no mapping
\* error whatever its path.
C7_DerivedTagOnlyWhenUntagged ==
    [][iterated' # iterated =>
          LET i == Len(iterated')
              e == iterated'[i]
          IN  (e.http_method # "parameters" /\ ~e.op_spec.malformed) =>
                  IF e.op_spec.tags = <<>>
                  THEN /\ i \in converted'
                       /\ IF HasSegment(e.path_name)
                          THEN /\ Holding(tag_to_ops', i) = {FirstSegment(e.path_name)}
                               /\ result' = Pending
                          ELSE /\ result' = SwaggerMappingError(e.path_name)
                               /\ tag_to_ops' = tag_to_ops
                  ELSE /\ Holding(tag_to_ops', i) = Declared(e)
                       /\ i \notin converted'
                       /\ converted' = converted
                       /\ result' = Pending]_vars

C7_Witness ==
    /\ result.kind = "return"
    /\ Len(iterated) = 2
    /\ iterated[1].path_name = RootPath
    /\ iterated[1].op_spec.tags = <<Store>>
    /\ iterated[2].path_name = PetFindByStatus
    /\ iterated[2].op_spec.tags = <<>>
    /\ Holding(tag_to_ops, 2) = {Pet}
    /\ converted = {2}

\* C8: when from_spec or the resolver raises at an entry, build_resources
\* ends with that very error, whatever was grouped before; nothing is
\* returned, no Resource is made and no further entry is processed.
C8_ErrorsPropagate ==
    [][/\ result.kind = "raise" => vars' = vars
       /\ result'.kind = "raise" => DOMAIN result' = {"kind", "exc", "path_name"}
       /\ iterated' # iterated =>
             LET i == Len(iterated')
                 e == iterated'[i]
             IN  e.http_method # "parameters" =>
                     IF e.op_spec.malformed
                     THEN /\ result' = Operation_from_spec(i, e.path_name,
                                                           e.http_method, e.op_spec)
                          /\ tag_to_ops' = tag_to_ops
                     ELSE IF e.op_spec.tags = <<>> /\ ~HasSegment(e.path_name)
                     THEN /\ result' = SwaggerMappingError(e.path_name)
                          /\ tag_to_ops' = tag_to_ops
                     ELSE result' = Pending]_vars

C8_Witness ==
    /\ result = SwaggerMappingError(RootPath)
    /\ Len(iterated) = 2
    /\ Holding(tag_to_ops, 1) = {Pet, Store}

\* C9 as stated: attribute access by a key of r.operations gives the
\* Operation registered under it, whatever the key; by any other name it
\* fails with an AttributeError naming the resource and the name.
C9_AttributeAccessGivesOperation ==
    attr_result.kind \in {"return", "raise"} =>
        IF item \in DOMAIN resource.operations
        THEN attr_result = [kind |-> "return", type |-> "Operation",
                            op |-> resource.operations[item]]
        ELSE attr_result = [kind |-> "raise", exc |-> "AttributeError",
                            resource_name |-> resource.name, item_name |-> item]

\* C10: every key of a tag bucket is the operation_id of the Operation it
\* maps to; no bucket is empty; the buckets are those of the tags some entry
\* was grouped under; the returned index has one Resource per bucket, named
\* by its key and holding the bucket.
C10_IndexWellFormed ==
    /\ result.kind \in {"pending", "return", "raise"} =>
           /\ \A t \in DOMAIN tag_to_ops :
                  /\ DOMAIN tag_to_ops[t] # {}
                  /\ \A k \in DOMAIN tag_to_ops[t] : tag_to_ops[t][k].operation_id = k
           /\ DOMAIN tag_to_ops = UNION {TagsOf(iterated[i]) : i \in Grouped}
    /\ result.kind = "return" =>
           /\ DOMAIN result.resources = UNION {TagsOf(iterated[i]) : i \in Grouped}
           /\ \A t \in DOMAIN result.resources :
                  /\ result.resources[t].name = t
                  /\ result.resources[t].operations = tag_to_ops[t]
                  /\ DOMAIN result.resources[t].operations # {}

C10_Witness ==
    /\ result.kind = "return"
    /\ DOMAIN result.resources = {Pet, Store}
    /\ \E i \in Grouped : iterated[i].op_spec.tags = <<>>
    /\ \E i \in Grouped : iterated[i].op_spec.tags # <<>>

====
